---- MODULE Spec2Model ----
(***************************************************************************)
(* State-machine model of the e-commerce backend: product catalog with     *)
(* soft delete, shopping carts, checkout / order creation, order status    *)
(* history.  Every request handler is one atomic action (the sequential    *)
(* behaviour of the API).  A handler X is modelled by X_result, the status *)
(* code it answers with and the tables as it leaves them, and by the       *)
(* action X that installs them.  Tables are bags or sequences of rows.     *)
(* Money is counted in cents; intermediate results that carry a third      *)
(* decimal place are counted in mills (tenths of a cent).                  *)
(***************************************************************************)
EXTENDS Integers, Sequences, FiniteSets, Bags, TLC

VARIABLES
    products,        \* Product table: id -> row
    variants,        \* ProductVariant table: id -> row
    categories,      \* Category table: id -> row
    carts,           \* Cart table: bag of rows
    creating,        \* the get_or_create calls on Cart that found no row and have not
                     \* inserted yet: bag of users
    cart_items,      \* CartItem table: bag of rows
    orders,          \* Order table: sequence of rows, id = index
    order_items,     \* OrderItem table: bag of rows
    status_history,  \* OrderStatusHistory table: sequence of rows in insertion order
    backend,         \* which rounding the database applies to a 2-place decimal column
    accounts,        \* User table: sequence of rows, id = index
    profiles,        \* UserProfile table: bag of rows
    order_creates,   \* the order creations that have read a product row and have not
                     \* written yet: bag of records
    cart_adds,       \* the add_to_cart requests that have looked their cart item up and
                     \* have not written yet: bag of records
    reviews,         \* ProductReview table: bag of rows
    review_creates   \* the review creations that have found no review of the user and
                     \* have not saved yet: bag of records

catalogVars == <<products, variants, categories>>
cartVars == <<carts, creating, cart_items>>
orderVars == <<orders, order_items, status_history>>
userVars == <<accounts, profiles>>
txVars == <<order_creates, cart_adds>>
reviewVars == <<reviews, review_creates>>
vars == <<products, variants, categories, carts, creating, cart_items, orders,
          order_items, status_history, backend, accounts, profiles, order_creates,
          cart_adds, reviews, review_creates>>

----------------------------------------------------------------------------
(* Bounds of the model *)

\* largest initial stock_quantity of a product
MaxStock == 2
\* largest quantity in a request, and cap on the quantity of one cart row
MaxQuantity == 2
\* largest number of rows of the Order table
MaxOrders == 2
\* largest number of rows of the OrderStatusHistory table
MaxHistory == 2
\* largest number of item lines in the body of a POST on the order list
MaxLines == 2
\* largest number of get_or_create calls on Cart that run at the same time
MaxRequests == 2
\* rows of the User table
MaxUsers == 2

----------------------------------------------------------------------------
(* The population *)

NULL == "null"
Users == {"u1", "u2"}
Products == {"p1", "p2"}
Variants == {"v1"}
Categories == {"c1", "c2"}

\* the stored timestamp of timezone.now()
NOW == "now"

\* ids a request may name: the stored rows and one id that matches no row
ProductIds == Products \cup {"p9"}
VariantIds == Variants \cup {"v9"}

STATUS_CHOICES ==
    {"pending", "confirmed", "processing", "shipped", "delivered", "cancelled", "refunded"}

\* the rounding a backend applies when a value is written to a 2-place column
Backends == {"half_even", "half_up"}

----------------------------------------------------------------------------
(* Init: the catalog of the fixtures, no cart rows, no orders *)

InitProducts ==
    [p \in Products |->
        [category |-> "c1",
         price |-> IF p = "p1" THEN 1995 ELSE 1000,
         stock_quantity |-> MaxStock,
         is_active |-> TRUE,
         is_featured |-> TRUE,
         is_deleted |-> FALSE,
         deleted_at |-> NULL]]

InitVariants ==
    [v \in Variants |-> [product |-> "p1", price |-> 2500, is_active |-> TRUE]]

InitCategories ==
    [c \in Categories |->
        [parent |-> IF c = "c2" THEN "c1" ELSE NULL,
         is_active |-> TRUE,
         is_deleted |-> FALSE,
         deleted_at |-> NULL]]

Init ==
    /\ products = InitProducts
    /\ variants = InitVariants
    /\ categories = InitCategories
    /\ carts = EmptyBag
    /\ creating = EmptyBag
    /\ cart_items = EmptyBag
    /\ orders = <<>>
    /\ order_items = EmptyBag
    /\ status_history = <<>>
    /\ backend \in Backends
    /\ accounts = <<>>
    /\ profiles = EmptyBag
    /\ order_creates = EmptyBag
    /\ cart_adds = EmptyBag
    /\ reviews = EmptyBag
    /\ review_creates = EmptyBag

----------------------------------------------------------------------------
(* Table helpers *)

BagAdd(B, r) == B (+) SetToBag({r})
BagRemove(B, r) == B (-) SetToBag({r})

\* the rows of a bag, one per copy, in the order the database returns them
RECURSIVE BagToSeq(_)
BagToSeq(B) ==
    IF BagToSet(B) = {} THEN <<>>
    ELSE LET r == CHOOSE x \in BagToSet(B) : TRUE
         IN  <<r>> \o BagToSeq(BagRemove(B, r))

\* Product.objects.get(id=..., is_active=True, is_deleted=False) finds a row
ProductAvailable(product_id) ==
    /\ product_id \in Products
    /\ products[product_id].is_active
    /\ ~products[product_id].is_deleted

\* ProductVariant.objects.get(id=..., product=product) finds a row
VariantOf(variant_id, product_id) ==
    /\ variant_id \in Variants
    /\ variants[variant_id].product = product_id

\* ProductVariant.objects.get(id=..., product=product, is_active=True) finds a row
VariantAvailable(variant_id, product_id) ==
    /\ VariantOf(variant_id, product_id)
    /\ variants[variant_id].is_active

\* "Get unit price": the variant's price when the line names a variant
\* a unit price that ignores the variant
ProductPriceOnly(product_id, variant_id) == products[product_id].price

UnitPrice(product_id, variant_id) ==
    IF variant_id # NULL THEN variants[variant_id].price ELSE products[product_id].price

----------------------------------------------------------------------------
(* Cart *)

\* a create that never meets the unique constraint
Cart_create_again(u) == BagAdd(carts, [user |-> u])

\* Cart.objects.create(user=u) under the OneToOneField's unique constraint: the insert
\* of a second row for the user raises IntegrityError and stores nothing
Cart_create(u) ==
    IF [user |-> u] \in BagToSet(carts) THEN carts ELSE BagAdd(carts, [user |-> u])

\* Cart.objects.get_or_create(user=u) run without interruption
Cart_get_or_create(u) ==
    IF [user |-> u] \in BagToSet(carts) THEN carts ELSE Cart_create(u)

\* a save that stores the row as it is given
Model_save(row) == row

\* CartItem.save: total_price is recomputed on every save
CartItem_save(row) == [row EXCEPT !.total_price = row.quantity * row.unit_price]

\* CartItem.objects.filter(cart=cart), as a set of rows and as a table
CartRows(u) == {r \in BagToSet(cart_items) : r.cart = u}
CartOf(u) == [r \in CartRows(u) |-> CopiesIn(r, cart_items)]

\* a delete that is not filtered by cart
CartItemsAllDeleted(u) == EmptyBag

\* a delete that removes nothing
CartItemsKept(u) == cart_items

\* cart.items.all().delete()
CartItemsDeleted(u) ==
    [r \in {x \in BagToSet(cart_items) : x.cart # u} |-> CopiesIn(r, cart_items)]

\* the rows get_or_create looks up: same cart, product and variant
CartMatches(u, product_id, variant_id) ==
    {r \in CartRows(u) : r.product = product_id /\ r.product_variant = variant_id}

CartMatchCount(u, product_id, variant_id) ==
    BagCardinality([r \in CartMatches(u, product_id, variant_id) |-> CopiesIn(r, cart_items)])

\* a create that inserts a row for every request
CartItemInsert(u, product_id, variant_id, quantity) ==
    BagAdd(cart_items,
           [cart |-> u, product |-> product_id, product_variant |-> variant_id,
            quantity |-> quantity, unit_price |-> UnitPrice(product_id, variant_id),
            total_price |-> quantity * UnitPrice(product_id, variant_id)])

\* CartItemCreateSerializer.create: get_or_create, then increment when the row existed
CartItemCreate(u, product_id, variant_id, quantity) ==
    IF CartMatchCount(u, product_id, variant_id) = 0
    THEN BagAdd(cart_items,
                CartItem_save([cart |-> u, product |-> product_id,
                               product_variant |-> variant_id, quantity |-> quantity,
                               unit_price |-> UnitPrice(product_id, variant_id),
                               total_price |-> 0]))
    ELSE LET row == CHOOSE r \in CartMatches(u, product_id, variant_id) : TRUE
         IN  BagAdd(BagRemove(cart_items, row),
                    CartItem_save([row EXCEPT !.quantity = row.quantity + quantity]))

\* CartItemCreateSerializer.validate
CartItemValidate(product_id, quantity) ==
    IF ~ProductAvailable(product_id) THEN "Product not found."
    ELSE IF products[product_id].stock_quantity < quantity THEN "Insufficient stock."
    ELSE "ok"

add_to_cart_result(u, product_id, variant_id, quantity) ==
    IF CartItemValidate(product_id, quantity) # "ok"
    THEN [status |-> 400, cart_items |-> cart_items]
    ELSE IF \/ (variant_id # NULL /\ ~VariantAvailable(variant_id, product_id))
            \/ CartMatchCount(u, product_id, variant_id) > 1
    THEN \* DoesNotExist and MultipleObjectsReturned are not caught
         [status |-> 500, cart_items |-> cart_items]
    ELSE [status |-> 201,
          cart_items |-> CartItemCreate(u, product_id, variant_id, quantity)]

add_to_cart(u, product_id, variant_id, quantity) ==
    LET result == add_to_cart_result(u, product_id, variant_id, quantity)
    IN  /\ \A r \in BagToSet(result.cart_items) : r.quantity <= MaxQuantity
        /\ cart_items' = result.cart_items
        /\ carts' = Cart_get_or_create(u)
        /\ UNCHANGED <<catalogVars, creating, orderVars, backend, userVars, txVars, reviewVars>>

remove_from_cart_result(u, row) ==
    IF row \in CartRows(u)
    THEN [status |-> 200, cart_items |-> BagRemove(cart_items, row)]
    ELSE [status |-> 404, cart_items |-> cart_items]

remove_from_cart(u, row) ==
    /\ cart_items' = remove_from_cart_result(u, row).cart_items
    /\ carts' = Cart_get_or_create(u)
    /\ UNCHANGED <<catalogVars, creating, orderVars, backend, userVars, txVars, reviewVars>>

\* an update that does not look at the stock
update_quantity_unchecked(u, row, quantity) ==
    IF row \notin CartRows(u)
    THEN [status |-> 404, cart_items |-> cart_items]
    ELSE IF quantity < 1
    THEN [status |-> 400, cart_items |-> cart_items]
    ELSE [status |-> 200,
          cart_items |-> BagAdd(BagRemove(cart_items, row),
                                [row EXCEPT !.quantity = quantity,
                                            !.total_price = quantity * row.unit_price])]

\* quantity 0 also stands for a request that carries no quantity ("not quantity")
update_cart_item_quantity_result(u, row, quantity) ==
    IF row \notin CartRows(u)
    THEN [status |-> 404, cart_items |-> cart_items]
    ELSE IF quantity = 0 \/ quantity < 1
    THEN [status |-> 400, cart_items |-> cart_items]
    ELSE IF products[row.product].stock_quantity < quantity
    THEN [status |-> 400, cart_items |-> cart_items]
    ELSE [status |-> 200,
          cart_items |-> BagAdd(BagRemove(cart_items, row),
                                CartItem_save([row EXCEPT !.quantity = quantity]))]

update_cart_item_quantity(u, row, quantity) ==
    /\ cart_items' = update_cart_item_quantity_result(u, row, quantity).cart_items
    /\ carts' = Cart_get_or_create(u)
    /\ UNCHANGED <<catalogVars, creating, orderVars, backend, userVars, txVars, reviewVars>>

\* PATCH on the cart item detail with a quantity: the serializer validates the field
\* (MinValueValidator(1)) and saves the row
CartItemDetailView_perform_update_result(u, row, quantity) ==
    IF row \notin CartRows(u)
    THEN [status |-> 404, cart_items |-> cart_items]
    ELSE IF quantity < 1
    THEN [status |-> 400, cart_items |-> cart_items]
    ELSE [status |-> 200,
          cart_items |-> BagAdd(BagRemove(cart_items, row),
                                CartItem_save([row EXCEPT !.quantity = quantity]))]

CartItemDetailView_perform_update(u, row, quantity) ==
    /\ cart_items' = CartItemDetailView_perform_update_result(u, row, quantity).cart_items
    /\ carts' = Cart_get_or_create(u)
    /\ UNCHANGED <<catalogVars, creating, orderVars, backend, userVars, txVars, reviewVars>>

clear_cart_result(u) == [status |-> 200, cart_items |-> CartItemsDeleted(u)]

clear_cart(u) ==
    /\ cart_items' = clear_cart_result(u).cart_items
    /\ carts' = Cart_get_or_create(u)
    /\ UNCHANGED <<catalogVars, creating, orderVars, backend, userVars, txVars, reviewVars>>

----------------------------------------------------------------------------
(* Money *)

\* tax_amount = subtotal * 0.1, as a percentage
TaxPercent == 10
\* shipping_amount = 10.00, in cents
ShippingAmount == 1000
\* discount_amount = 0.00
DiscountAmount == 0

Mills(cents) == cents * 10

\* a value counted in mills as a DecimalField(decimal_places=2) column keeps it:
\* rounded to the cent, a tie going to the even cent or up, as the backend does
Quantize(mills, mode) ==
    LET q == mills \div 10
        r == mills % 10
    IN  IF r < 5 THEN q
        ELSE IF r > 5 THEN q + 1
        ELSE IF mode = "half_even" /\ q % 2 = 0 THEN q
        ELSE q + 1

\* "Calculate other amounts (simplified)", each in mills
TaxAmount(subtotal) == (subtotal * TaxPercent) \div 100
TotalAmount(subtotal, tax_amount, shipping_amount, discount_amount) ==
    subtotal + tax_amount + shipping_amount - discount_amount

----------------------------------------------------------------------------
(* Orders *)

\* what timezone.now().strftime('%Y%m%d') and str(uuid.uuid4()) may return
Dates == {"20240101"}
Uuids == {<<"3", "f", "a", "8", "5", "f", "6", "4", "-", "5">>,
          <<"0", "0", "c", "0", "f", "f", "e", "e", "-", "1">>}

Upper(c) ==
    CASE c = "a" -> "A" [] c = "b" -> "B" [] c = "c" -> "C"
      [] c = "d" -> "D" [] c = "e" -> "E" [] c = "f" -> "F"
      [] OTHER -> c

\* Order.generate_order_number: f"ORD-{date}-{str(uuid)[:8].upper()}"
generate_order_number(date, uuid) ==
    <<"ORD", "-", date, "-">> \o [i \in 1..8 |-> Upper(uuid[i])]

\* a save that generates a number every time
Order_save_always(order, date, uuid) ==
    [order EXCEPT !.order_number = generate_order_number(date, uuid)]

\* Order.save: a number is generated only when the order has none
Order_save(order, date, uuid) ==
    IF order.order_number = <<>>
    THEN [order EXCEPT !.order_number = generate_order_number(date, uuid)]
    ELSE order

\* a column without the unique constraint
NumberNeverTaken(number, id) == FALSE

\* order_number is unique=True: the row violates it when another row has the number
OrderNumberTaken(number, id) ==
    \E i \in DOMAIN orders : i # id /\ orders[i].order_number = number

\* OrderItem.save: total_price is recomputed on every save
OrderItem_save(row) == [row EXCEPT !.total_price = row.quantity * row.unit_price]

\* a check that lets every order be cancelled
Order_any_status(order) == TRUE

\* a check that lets a shipped order be cancelled
Order_not_closed(order) == order.status \notin {"delivered", "cancelled", "refunded"}

Order_can_be_cancelled(order) == order.status \in {"pending", "confirmed", "processing"}

\* OrderStatusHistory.objects.create
HistoryEntry(order_id, status, user) ==
    [order |-> order_id, status |-> status, changed_by |-> user]

\* a first loop that adds the lines up and checks no stock
RECURSIVE SumLines(_, _, _)
SumLines(items_data, i, subtotal) ==
    IF i > Len(items_data) THEN [error |-> "ok", subtotal |-> subtotal]
    ELSE IF ~ProductAvailable(items_data[i].product_id)
    THEN [error |-> "Product not found.", subtotal |-> subtotal]
    ELSE SumLines(items_data, i + 1,
                  subtotal + items_data[i].quantity
                                 * products[items_data[i].product_id].price)

\* first loop of OrderCreateSerializer.create: the subtotal of the lines in cents,
\* or the validation error of the first line that fails
RECURSIVE CalculateTotals(_, _, _)
CalculateTotals(items_data, i, subtotal) ==
    IF i > Len(items_data) THEN [error |-> "ok", subtotal |-> subtotal]
    ELSE LET item_data == items_data[i]
             product_id == item_data.product_id
             variant_id == item_data.product_variant_id
             quantity == item_data.quantity
         IN  IF ~ProductAvailable(product_id)
             THEN [error |-> "Product not found.", subtotal |-> subtotal]
             ELSE IF variant_id # NULL /\ ~VariantAvailable(variant_id, product_id)
             THEN [error |-> "Product variant not found.", subtotal |-> subtotal]
             ELSE IF products[product_id].stock_quantity < quantity
             THEN [error |-> "Insufficient stock.", subtotal |-> subtotal]
             ELSE CalculateTotals(items_data, i + 1,
                                  subtotal + quantity * UnitPrice(product_id, variant_id))

\* OrderItem is unique_together (order, product, product_variant); two rows whose
\* variant is NULL never collide
OrderItemCollides(items, order_id, product_id, variant_id) ==
    /\ variant_id # NULL
    /\ \E r \in BagToSet(items) :
           r.order = order_id /\ r.product = product_id /\ r.product_variant = variant_id

\* "Update stock": product.stock_quantity -= quantity; product.save()
StockAfter(stock_quantity, quantity) == stock_quantity - quantity

\* second loop of OrderCreateSerializer.create: the order items written and the
\* stock left, line by line; error is set when a write fails
RECURSIVE CreateOrderItems(_, _, _, _)
CreateOrderItems(items_data, i, order_id, acc) ==
    IF i > Len(items_data) \/ acc.error # "ok" THEN acc
    ELSE LET item_data == items_data[i]
             product_id == item_data.product_id
             variant_id == item_data.product_variant_id
             quantity == item_data.quantity
             row == OrderItem_save([order |-> order_id, product |-> product_id,
                                    product_variant |-> variant_id, quantity |-> quantity,
                                    unit_price |-> UnitPrice(product_id, variant_id),
                                    total_price |-> 0])
         IN  IF OrderItemCollides(acc.order_items, order_id, product_id, variant_id)
             THEN [acc EXCEPT !.error = "IntegrityError"]
             ELSE CreateOrderItems(items_data, i + 1, order_id,
                     [error |-> "ok",
                      order_items |-> BagAdd(acc.order_items, row),
                      products |->
                          [acc.products EXCEPT ![product_id].stock_quantity =
                               StockAfter(acc.products[product_id].stock_quantity, quantity)]])

\* the Order row of Order.objects.create(...): the amounts as their columns keep them
NewOrder(user, subtotal, notes, date, uuid) ==
    LET tax_amount == TaxAmount(Mills(subtotal))
        shipping_amount == Mills(ShippingAmount)
        discount_amount == Mills(DiscountAmount)
        total_amount ==
            TotalAmount(Mills(subtotal), tax_amount, shipping_amount, discount_amount)
    IN  Order_save([user |-> user,
                    order_number |-> <<>>,
                    status |-> "pending",
                    subtotal |-> Quantize(Mills(subtotal), backend),
                    tax_amount |-> Quantize(tax_amount, backend),
                    shipping_amount |-> Quantize(shipping_amount, backend),
                    discount_amount |-> Quantize(discount_amount, backend),
                    total_amount |-> Quantize(total_amount, backend),
                    notes |-> notes], date, uuid)

\* OrderCreateSerializer.create inside transaction.atomic(): the tables as the
\* transaction leaves them.  On an error nothing of it is kept.
OrderCreate(user, items_data, notes, date, uuid) ==
    LET totals == CalculateTotals(items_data, 1, 0)
        order_id == Len(orders) + 1
        order == NewOrder(user, totals.subtotal, notes, date, uuid)
        written == CreateOrderItems(items_data, 1, order_id,
                       [error |-> "ok", order_items |-> order_items, products |-> products])
        rollback == [orders |-> orders, order_items |-> order_items, products |-> products]
    IN  IF totals.error # "ok"
        THEN [error |-> totals.error, status |-> 400] @@ rollback
        ELSE IF OrderNumberTaken(order.order_number, order_id)
        THEN [error |-> "IntegrityError", status |-> 500] @@ rollback
        ELSE IF written.error # "ok"
        THEN [error |-> written.error, status |-> 500] @@ rollback
        ELSE [error |-> "ok", status |-> 201,
              orders |-> Append(orders, order),
              order_items |-> written.order_items,
              products |-> written.products]

\* checkout: "Convert cart items to order items"
OrderItemData(cart_item) ==
    [product_id |-> cart_item.product,
     quantity |-> cart_item.quantity,
     product_variant_id |-> cart_item.product_variant]

CartItemsData(u) ==
    LET rows == BagToSeq(CartOf(u))
    IN  [i \in 1..Len(rows) |-> OrderItemData(rows[i])]

\* what a request leaves unchanged when it fails
Unchanged(status) ==
    [status |-> status, products |-> products, cart_items |-> cart_items,
     orders |-> orders, order_items |-> order_items, status_history |-> status_history]

\* billing_valid: the billing and shipping fields of the request pass is_valid()
checkout_result(u, billing_valid, date, uuid) ==
    IF CartRows(u) = {} THEN Unchanged(400)
    ELSE IF ~billing_valid THEN Unchanged(400)
    ELSE LET created == OrderCreate(u, CartItemsData(u), "", date, uuid)
         IN  IF created.error # "ok" THEN Unchanged(created.status)
             ELSE [status |-> 201,
                   products |-> created.products,
                   cart_items |-> CartItemsDeleted(u),
                   orders |-> created.orders,
                   order_items |-> created.order_items,
                   status_history |->
                       Append(status_history,
                              HistoryEntry(Len(created.orders), "pending", u))]

checkout(u, billing_valid, date, uuid) ==
    LET result == checkout_result(u, billing_valid, date, uuid)
    IN  /\ Len(result.orders) <= MaxOrders
        /\ products' = result.products
        /\ cart_items' = result.cart_items
        /\ orders' = result.orders
        /\ order_items' = result.order_items
        /\ status_history' = result.status_history
        /\ carts' = Cart_get_or_create(u)
        /\ UNCHANGED <<variants, categories, creating, backend, userVars, txVars, reviewVars>>

\* POST on the order list: OrderCreateSerializer.create with the lines of the request;
\* the cart and the status history are not touched
OrderListView_post_result(u, items_data, billing_valid, date, uuid) ==
    IF ~billing_valid \/ items_data = <<>> THEN Unchanged(400)
    ELSE LET created == OrderCreate(u, items_data, "", date, uuid)
         IN  IF created.error # "ok" THEN Unchanged(created.status)
             ELSE [Unchanged(201) EXCEPT !.products = created.products,
                                         !.orders = created.orders,
                                         !.order_items = created.order_items]

OrderListView_post(u, items_data, billing_valid, date, uuid) ==
    LET result == OrderListView_post_result(u, items_data, billing_valid, date, uuid)
    IN  /\ Len(result.orders) <= MaxOrders
        /\ products' = result.products
        /\ orders' = result.orders
        /\ order_items' = result.order_items
        /\ UNCHANGED <<variants, categories, cartVars, status_history, backend,
                       userVars, txVars,
                       reviewVars>>

\* a queryset that is not filtered by user
AllOrders(u) == DOMAIN orders

\* `raise serializers.ValidationError(...)` in a views module that imports no name
\* `serializers`: evaluating the name raises NameError, which is answered with 500
RaiseUnboundSerializers == 500

\* OrderDetailView.get_queryset: the orders of the requester
OwnOrders(u) == {i \in DOMAIN orders : orders[i].user = u}

\* a destroy that removes the items of the order
perform_destroy_cascade(u, id, date, uuid) ==
    IF id \notin OwnOrders(u) THEN Unchanged(404)
    ELSE [Unchanged(204) EXCEPT
             !.order_items = [r \in {x \in BagToSet(order_items) : x.order # id}
                                 |-> CopiesIn(r, order_items)]]

\* DELETE on the order detail: cancel
OrderDetailView_perform_destroy_result(u, id, date, uuid) ==
    IF id \notin OwnOrders(u) THEN Unchanged(404)
    ELSE IF Order_can_be_cancelled(orders[id])
    THEN [Unchanged(204) EXCEPT
             !.orders = [orders EXCEPT
                            ![id] = Order_save([@ EXCEPT !.status = "cancelled"], date, uuid)],
             !.status_history = Append(status_history, HistoryEntry(id, "cancelled", u))]
    ELSE Unchanged(RaiseUnboundSerializers)

OrderDetailView_perform_destroy(u, id, date, uuid) ==
    LET result == OrderDetailView_perform_destroy_result(u, id, date, uuid)
    IN  /\ orders' = result.orders
        /\ status_history' = result.status_history
        /\ UNCHANGED <<catalogVars, cartVars, order_items, backend,
                       userVars, txVars, reviewVars>>

Notes == {"", "leave at the door"}

\* serializer.validated_data of an update: the writable fields the request names,
\* here any of notes and status
UpdateData ==
    {data \in UNION {[fields -> Notes \cup STATUS_CHOICES] :
                         fields \in SUBSET {"notes", "status"}} :
         /\ "notes" \in DOMAIN data => data["notes"] \in Notes
         /\ "status" \in DOMAIN data => data["status"] \in STATUS_CHOICES}

allowed_fields == {"notes", "shipping_address_line_1", "shipping_address_line_2"}

\* every field of validated_data copied onto the instance
SetAllFields(instance, data) ==
    [field \in DOMAIN instance |->
        IF field \in DOMAIN data THEN data[field] ELSE instance[field]]

\* for field in allowed_fields: if field in validated_data: setattr(instance, field, ..)
SetAllowedFields(instance, data) ==
    [field \in DOMAIN instance |->
        IF field \in allowed_fields /\ field \in DOMAIN data
        THEN data[field]
        ELSE instance[field]]

\* PUT/PATCH on the order detail: only the allowed fields are copied, then save()
OrderDetailView_perform_update_result(u, id, data, date, uuid) ==
    IF id \notin OwnOrders(u) THEN Unchanged(404)
    ELSE [Unchanged(200) EXCEPT
             !.orders = [orders EXCEPT
                            ![id] = Order_save(SetAllowedFields(@, data), date, uuid)]]

OrderDetailView_perform_update(u, id, data, date, uuid) ==
    /\ orders' = OrderDetailView_perform_update_result(u, id, data, date, uuid).orders
    /\ UNCHANGED <<catalogVars, cartVars, order_items, status_history, backend,
                       userVars, txVars, reviewVars>>

Admins == {"admin"}

\* OrderAdmin.save_model with change = False: the add form; order_number is read-only,
\* the amounts are the ones the form carries
OrderAdmin_add_result(admin, status, date, uuid) ==
    LET obj == Order_save([user |-> admin,
                           order_number |-> <<>>,
                           status |-> status,
                           subtotal |-> 0,
                           tax_amount |-> 0,
                           shipping_amount |-> 0,
                           discount_amount |-> 0,
                           total_amount |-> 0,
                           notes |-> ""], date, uuid)
    IN  IF OrderNumberTaken(obj.order_number, Len(orders) + 1) THEN Unchanged(500)
        ELSE [Unchanged(200) EXCEPT !.orders = Append(orders, obj)]

OrderAdmin_add(admin, status, date, uuid) ==
    LET result == OrderAdmin_add_result(admin, status, date, uuid)
    IN  /\ Len(result.orders) <= MaxOrders
        /\ orders' = result.orders
        /\ UNCHANGED <<catalogVars, cartVars, order_items, status_history, backend,
                       userVars, txVars, reviewVars>>

\* OrderAdmin.save_model with change = True: the change form saved with this status
OrderAdmin_change_result(admin, id, status, date, uuid) ==
    IF id \notin DOMAIN orders THEN Unchanged(404)
    ELSE [Unchanged(200) EXCEPT
             !.orders = [orders EXCEPT
                            ![id] = Order_save([@ EXCEPT !.status = status], date, uuid)],
             !.status_history =
                 IF status # orders[id].status
                 THEN Append(status_history, HistoryEntry(id, status, admin))
                 ELSE status_history]

OrderAdmin_change(admin, id, status, date, uuid) ==
    LET result == OrderAdmin_change_result(admin, id, status, date, uuid)
    IN  /\ Len(result.status_history) <= MaxHistory
        /\ orders' = result.orders
        /\ status_history' = result.status_history
        /\ UNCHANGED <<catalogVars, cartVars, order_items, backend,
                       userVars, txVars, reviewVars>>

----------------------------------------------------------------------------
(* Catalog: soft delete *)

\* SoftDeleteModel.delete(): the row is kept, flagged and stamped
SoftDeleteModel_delete(row) == [row EXCEPT !.is_deleted = TRUE, !.deleted_at = NOW]

\* the default manager of a soft-delete model leaves the deleted rows out
DefaultManager(table) == {id \in DOMAIN table : ~table[id].is_deleted}

\* ProductDeleteView.perform_destroy: "Soft delete"
ProductDeleteView_destroyed(instance) == [instance EXCEPT !.is_deleted = TRUE]

\* DELETE on the product delete endpoint; the lookup goes through Product.objects.all()
ProductDeleteView_perform_destroy_result(u, product_id) ==
    IF product_id \notin DefaultManager(products)
    THEN [status |-> 404, products |-> products]
    ELSE [status |-> 204,
          products |-> [products EXCEPT ![product_id] = ProductDeleteView_destroyed(@)]]

ProductDeleteView_perform_destroy(u, product_id) ==
    /\ products' = ProductDeleteView_perform_destroy_result(u, product_id).products
    /\ UNCHANGED <<variants, categories, cartVars, orderVars, backend,
                   userVars, txVars, reviewVars>>

\* PATCH on the product update endpoint with is_active only
ProductUpdateView_perform_update_result(u, product_id, is_active) ==
    IF product_id \notin DefaultManager(products)
    THEN [status |-> 404, products |-> products]
    ELSE [status |-> 200,
          products |-> [products EXCEPT ![product_id].is_active = is_active]]

ProductUpdateView_perform_update(u, product_id, is_active) ==
    /\ products' = ProductUpdateView_perform_update_result(u, product_id, is_active).products
    /\ UNCHANGED <<variants, categories, cartVars, orderVars, backend,
                   userVars, txVars, reviewVars>>

\* the admin saves a variant with this is_active
ProductVariantAdmin_save(variant_id, is_active) ==
    /\ variants' = [variants EXCEPT ![variant_id].is_active = is_active]
    /\ UNCHANGED <<products, categories, cartVars, orderVars, backend,
                   userVars, txVars, reviewVars>>

\* product.delete(), also what SoftDeleteModelAdmin.soft_delete calls on each row
Product_delete(product_id) ==
    /\ products' = [products EXCEPT ![product_id] = SoftDeleteModel_delete(@)]
    /\ UNCHANGED <<variants, categories, cartVars, orderVars, backend,
                   userVars, txVars, reviewVars>>

\* SoftDeleteModelAdmin.restore
SoftDeleteModelAdmin_restored(obj) == [obj EXCEPT !.is_deleted = FALSE, !.deleted_at = NULL]

\* SoftDeleteModelAdmin.restore on a product, on a category
Product_restore(product_id) ==
    /\ products' = [products EXCEPT ![product_id] = SoftDeleteModelAdmin_restored(@)]
    /\ UNCHANGED <<variants, categories, cartVars, orderVars, backend,
                   userVars, txVars, reviewVars>>

\* category.delete(), as in test_category_soft_delete
Category_delete(category_id) ==
    /\ categories' = [categories EXCEPT ![category_id] = SoftDeleteModel_delete(@)]
    /\ UNCHANGED <<products, variants, cartVars, orderVars, backend,
                   userVars, txVars, reviewVars>>

Category_restore(category_id) ==
    /\ categories' = [categories EXCEPT ![category_id] = SoftDeleteModelAdmin_restored(@)]
    /\ UNCHANGED <<products, variants, cartVars, orderVars, backend,
                   userVars, txVars, reviewVars>>

\* the admin saves a category with this is_active
CategoryAdmin_save(category_id, is_active) ==
    /\ categories' = [categories EXCEPT ![category_id].is_active = is_active]
    /\ UNCHANGED <<products, variants, cartVars, orderVars, backend,
                   userVars, txVars, reviewVars>>

----------------------------------------------------------------------------
(* Catalog: the public read operations, as the set of rows each one returns *)

\* CategoryListView / CategoryDetailView queryset
CategoryListView_queryset ==
    {c \in Categories : categories[c].is_active /\ ~categories[c].is_deleted}

\* CategorySerializer.get_children: obj.children.all()
Category_children(c) == {d \in DefaultManager(categories) : categories[d].parent = c}

\* the categories one serialized category carries: itself and, nested, its children
RECURSIVE CategorySerializer_data(_)
CategorySerializer_data(c) ==
    {c} \cup UNION {CategorySerializer_data(d) : d \in Category_children(c)}

CategoryListView_get == UNION {CategorySerializer_data(c) : c \in CategoryListView_queryset}

CategoryDetailView_get(c) ==
    IF c \in CategoryListView_queryset THEN CategorySerializer_data(c) ELSE {}

\* ProductListView queryset; in_stock is the optional filter
ProductListView_get(in_stock) ==
    {p \in Products : /\ products[p].is_active
                      /\ ~products[p].is_deleted
                      /\ (in_stock => products[p].stock_quantity > 0)}

\* ProductDetailView queryset and lookup
ProductDetailView_get(product_id) ==
    {p \in Products : p = product_id /\ products[p].is_active /\ ~products[p].is_deleted}

\* ProductDetailSerializer.category: the category of each product returned, serialized
\* in full by the nested CategorySerializer
ProductDetailSerializer_category(product_id) ==
    UNION {CategorySerializer_data(products[p].category) :
               p \in ProductDetailView_get(product_id)}

featured_products ==
    {p \in Products : /\ products[p].is_active
                      /\ ~products[p].is_deleted
                      /\ products[p].is_featured}

\* related_products: the other products of the category of a product that is found
related_products(product_id) ==
    IF ~ProductAvailable(product_id) THEN {}
    ELSE {p \in Products : /\ products[p].category = products[product_id].category
                           /\ products[p].is_active
                           /\ ~products[p].is_deleted
                           /\ p # product_id}

\* product_search: matches are the products whose text holds the query
product_search(matches) ==
    {p \in matches : products[p].is_active /\ ~products[p].is_deleted}

----------------------------------------------------------------------------
(* Spec, the shop: carts and checkout of two users, and the catalog changes that  *)
(* make a checkout fail.  The requests name product p1 or no stored product.      *)

Quantities == 1..MaxQuantity
ShopProductIds == {"p1", "p9"}
LineVariantIds == {NULL, "v1", "v9"}

\* the item lines a POST on the order list may carry
OrderLines ==
    [product_id : ShopProductIds, product_variant_id : {NULL, "v1"}, quantity : Quantities]
ItemLists == UNION {[1..n -> OrderLines] : n \in 0..MaxLines}

Next ==
    \/ \E u \in Users, p \in ShopProductIds, v \in LineVariantIds, q \in Quantities :
           add_to_cart(u, p, v, q)
    \/ \E u \in Users, row \in BagToSet(cart_items) : remove_from_cart(u, row)
    \/ \E u \in Users, row \in BagToSet(cart_items), q \in 0..MaxQuantity :
           update_cart_item_quantity(u, row, q)
    \/ \E u \in Users, row \in BagToSet(cart_items), q \in 0..MaxQuantity :
           CartItemDetailView_perform_update(u, row, q)
    \/ \E u \in Users : clear_cart(u)
    \/ \E u \in Users, b \in BOOLEAN, d \in Dates, uuid \in Uuids : checkout(u, b, d, uuid)
    \/ \E u \in Users, p \in ShopProductIds : ProductDeleteView_perform_destroy(u, p)
    \/ \E u \in Users, p \in ShopProductIds, a \in BOOLEAN :
           ProductUpdateView_perform_update(u, p, a)
    \/ \E v \in Variants, a \in BOOLEAN : ProductVariantAdmin_save(v, a)

Spec == Init /\ [][Next]_vars

----------------------------------------------------------------------------
(* Stock *)

----------------------------------------------------------------------------
(* Amounts *)

C3_TotalPrice ==
    /\ \A r \in BagToSet(cart_items) : r.total_price = r.quantity * r.unit_price
    /\ \A r \in BagToSet(order_items) : r.total_price = r.quantity * r.unit_price

\* a cart row whose quantity was incremented or replaced, and an order item
C3_Witness ==
    /\ \E r \in BagToSet(cart_items) : r.quantity > 1 /\ r.total_price = 2 * r.unit_price
    /\ \E r \in BagToSet(order_items) : r.total_price > 0

----------------------------------------------------------------------------
(* Cart rows *)

\* the quantity the cart of u holds of a (product, variant) pair: 0 without a row
QuantityInCart(u, product_id, variant_id) ==
    IF CartMatches(u, product_id, variant_id) = {} THEN 0
    ELSE (CHOOSE r \in CartMatches(u, product_id, variant_id) : TRUE).quantity

\* C4: a cart holds at most one CartItem per (product, variant) pair, and every
\* accepted add_to_cart leaves exactly one row of its pair, whose quantity is the
\* quantity the cart held of the pair plus the quantity added, and leaves every other
\* row as it was; so the quantity of a row is the sum of the accepted adds since the
\* row was created.
C4_OneRowPerPair ==
    /\ \A u \in Users, p \in ProductIds, v \in VariantIds \cup {NULL} :
           CartMatchCount(u, p, v) <= 1
    /\ \A u \in Users, p \in ProductIds, v \in VariantIds \cup {NULL}, q \in Quantities :
           LET result == add_to_cart_result(u, p, v, q)
               after == {r \in BagToSet(result.cart_items) :
                            r.cart = u /\ r.product = p /\ r.product_variant = v}
           IN  result.status = 201 =>
                   /\ Cardinality(after) = 1
                   /\ \A r \in after :
                          /\ CopiesIn(r, result.cart_items) = 1
                          /\ r.quantity = QuantityInCart(u, p, v) + q
                   /\ \A r \in BagToSet(cart_items) \cup BagToSet(result.cart_items) :
                          r \notin after /\ r \notin CartMatches(u, p, v) =>
                              CopiesIn(r, result.cart_items) = CopiesIn(r, cart_items)

\* a cart holds a row of quantity 1 and a second add of its pair is accepted, leaving
\* the one row with quantity 2
C4_Witness ==
    \E u \in Users : \E r \in CartRows(u) :
        /\ r.quantity = 1
        /\ add_to_cart_result(u, r.product, r.product_variant, 1).status = 201
        /\ [r EXCEPT !.quantity = 2, !.total_price = 2 * r.unit_price]
               \in BagToSet(add_to_cart_result(u, r.product, r.product_variant, 1).cart_items)

----------------------------------------------------------------------------
(* Checkout *)

\* every row of the cart of u is in stock: its product has at least its quantity
CartInStock(u) ==
    /\ CartRows(u) # {}
    /\ \A r \in CartRows(u) : products[r.product].stock_quantity >= r.quantity

\* every row of the cart of u names a product and a variant that can be ordered
CartAvailable(u) ==
    \A r \in CartRows(u) :
        /\ ProductAvailable(r.product)
        /\ r.product_variant # NULL => VariantAvailable(r.product_variant, r.product)

\* result is a successful checkout of the cart of u: one more order, pending and owned
\* by u; one order item per cart row, with its product, variant and quantity; the cart
\* of u empty and the other carts as they were; one more history entry, 'pending'
CheckoutCreated(u, result) ==
    LET id == Len(orders) + 1
        new_items == result.order_items (-) order_items
    IN  /\ result.status = 201
        /\ Len(result.orders) = id
        /\ SubSeq(result.orders, 1, Len(orders)) = orders
        /\ result.orders[id].status = "pending"
        /\ result.orders[id].user = u
        /\ order_items \sqsubseteq result.order_items
        /\ BagCardinality(new_items) = Cardinality(CartRows(u))
        /\ \A r \in CartRows(u) :
               \E i \in BagToSet(new_items) :
                   /\ i.order = id
                   /\ i.product = r.product
                   /\ i.product_variant = r.product_variant
                   /\ i.quantity = r.quantity
        /\ \A r \in BagToSet(result.cart_items) : r.cart # u
        /\ \A r \in BagToSet(cart_items) :
               r.cart # u => CopiesIn(r, result.cart_items) = CopiesIn(r, cart_items)
        /\ result.status_history =
               Append(status_history, [order |-> id, status |-> "pending", changed_by |-> u])

CheckoutMustFail(u) ==
    \/ CartRows(u) = {}
    \/ ~CartAvailable(u)
    \/ \E r \in CartRows(u) : products[r.product].stock_quantity < r.quantity

\* C9: a checkout that fails answers an error and changes nothing, and a checkout
\* fails when the cart is empty, a product or variant of it cannot be ordered or a
\* row has not enough stock; an order creation that fails while its items are written
\* keeps no order, no order item and no stock change.
C9_FailedCheckoutUnchanged ==
    /\ \A u \in Users, b \in BOOLEAN, d \in Dates, uuid \in Uuids :
           LET result == checkout_result(u, b, d, uuid)
           IN  /\ result.status # 201 =>
                      /\ result.status >= 400
                      /\ result = Unchanged(result.status)
               /\ CheckoutMustFail(u) => result.status = 400
    /\ \A u \in Users, items_data \in ItemLists, d \in Dates, uuid \in Uuids :
           LET created == OrderCreate(u, items_data, "", d, uuid)
           IN  created.error # "ok" =>
                   /\ created.status >= 400
                   /\ created.orders = orders
                   /\ created.order_items = order_items
                   /\ created.products = products

\* a cart that is not empty and whose checkout fails for a row with too little stock
C9_Witness ==
    \E u \in Users :
        /\ CartRows(u) # {}
        /\ checkout_result(u, TRUE, "20240101", CHOOSE uuid \in Uuids : TRUE).status = 400
        /\ \E r \in CartRows(u) : products[r.product].stock_quantity < r.quantity

----------------------------------------------------------------------------
(* SpecCatalog: soft delete and restore of products and categories, the edits of   *)
(* is_active, and one user who fills a cart and orders.                            *)

NextCatalog ==
    \/ \E u \in Users, p \in ProductIds : ProductDeleteView_perform_destroy(u, p)
    \/ \E p \in Products : Product_delete(p)
    \/ \E p \in Products : Product_restore(p)
    \/ \E u \in Users, p \in ProductIds, a \in BOOLEAN :
           ProductUpdateView_perform_update(u, p, a)
    \/ \E c \in Categories : Category_delete(c)
    \/ \E c \in Categories : Category_restore(c)
    \/ \E c \in Categories, a \in BOOLEAN : CategoryAdmin_save(c, a)
    \/ \E p \in ProductIds : add_to_cart("u1", p, NULL, 1)
    \/ \E d \in Dates, uuid \in Uuids : checkout("u1", TRUE, d, uuid)

SpecCatalog == Init /\ [][NextCatalog]_vars

\* the products and the categories the public catalog operations return
CatalogProducts ==
    UNION ({ProductListView_get(in_stock) : in_stock \in BOOLEAN}
           \cup {ProductDetailView_get(p) : p \in ProductIds}
           \cup {related_products(p) : p \in ProductIds}
           \cup {product_search(matches) : matches \in SUBSET Products}
           \cup {featured_products})

CatalogCategories ==
    UNION ({CategoryDetailView_get(c) : c \in Categories}
           \cup {ProductDetailSerializer_category(p) : p \in ProductIds}
           \cup {CategoryListView_get})

\* C5: a soft-deleted product or category is never returned by category list and
\* detail, product list and detail, product_search, featured_products and
\* related_products, and a soft-deleted product is not accepted by add_to_cart nor by
\* an order creation.  The detail of a product whose category is soft-deleted returns
\* that category, which violates it.
C5_SoftDeletedNeverReturned ==
    /\ \A p \in CatalogProducts : ~products[p].is_deleted
    /\ \A c \in CatalogCategories : ~categories[c].is_deleted
    /\ \A u \in Users, p \in Products, v \in VariantIds \cup {NULL}, q \in Quantities :
           products[p].is_deleted => add_to_cart_result(u, p, v, q).status # 201
    /\ \A u \in Users, items_data \in ItemLists, d \in Dates, uuid \in Uuids :
           (\E i \in DOMAIN items_data :
                /\ items_data[i].product_id \in Products
                /\ products[items_data[i].product_id].is_deleted)
           => OrderCreate(u, items_data, "", d, uuid).error # "ok"

\* C6: every soft-deleted row carries a deletion timestamp: is_deleted = true implies
\* deleted_at is not null.  The product delete endpoint violates it.
C6_DeletedHasTimestamp ==
    /\ \A p \in Products : products[p].is_deleted => products[p].deleted_at # NULL
    /\ \A c \in Categories : categories[c].is_deleted => categories[c].deleted_at # NULL

----------------------------------------------------------------------------
(* SpecOrders: the life of the first order: created by a checkout, by a POST on the *)
(* order list or on the admin's add form; cancelled or edited by its user; its      *)
(* status changed on the admin's change form.                                       *)

\* the bodies of the POSTs: one or two lines of one unit of p1, or none
PostLists ==
    {items_data \in ItemLists :
         \A i \in DOMAIN items_data :
             items_data[i].product_id = "p1" /\ items_data[i].quantity = 1}

NextOrders ==
    \/ add_to_cart("u1", "p1", NULL, 1)
    \/ \E d \in Dates, uuid \in Uuids : orders = <<>> /\ checkout("u1", TRUE, d, uuid)
    \/ \E u \in Users, items_data \in PostLists, d \in Dates, uuid \in Uuids :
           orders = <<>> /\ OrderListView_post(u, items_data, TRUE, d, uuid)
    \/ \E u \in Users, id \in 1..MaxOrders, d \in Dates, uuid \in Uuids :
           OrderDetailView_perform_destroy(u, id, d, uuid)
    \/ \E u \in Users, id \in 1..MaxOrders, data \in UpdateData, d \in Dates, uuid \in Uuids :
           OrderDetailView_perform_update(u, id, data, d, uuid)
    \/ \E admin \in Admins, status \in STATUS_CHOICES, d \in Dates, uuid \in Uuids :
           orders = <<>> /\ OrderAdmin_add(admin, status, d, uuid)
    \/ \E admin \in Admins, id \in 1..MaxOrders, status \in STATUS_CHOICES,
             d \in Dates, uuid \in Uuids :
           OrderAdmin_change(admin, id, status, d, uuid)

SpecOrders == Init /\ [][NextOrders]_vars

\* C7: every step that creates an order or changes the status of one appends one
\* OrderStatusHistory entry carrying the order and its new status, and every step
\* keeps the entries there are.  An order created by a POST on the order list or on
\* the admin's add form has a status and gets no entry, which violates it.
C7_StatusHistoryAppendOnly ==
    [][/\ Len(status_history') >= Len(status_history)
       /\ SubSeq(status_history', 1, Len(status_history)) = status_history
       /\ \A i \in DOMAIN orders' :
              (i \notin DOMAIN orders \/ orders'[i].status # orders[i].status) =>
                  /\ Len(status_history') = Len(status_history) + 1
                  /\ status_history'[Len(status_history')].order = i
                  /\ status_history'[Len(status_history')].status = orders'[i].status]_vars

\* the characters of an order number after 'ORD-<date>-'
SuffixChars ==
    {"0", "1", "2", "3", "4", "5", "6", "7", "8", "9", "A", "B", "C", "D", "E", "F", "-"}

\* number has the form 'ORD-<date>-<8 chars>'
OrderNumberForm(number) ==
    /\ Len(number) = 12
    /\ SubSeq(number, 1, 2) = <<"ORD", "-">>
    /\ number[3] \in Dates
    /\ number[4] = "-"
    /\ \A i \in 5..12 : number[i] \in SuffixChars

\* C10: every stored order has a number of the form 'ORD-<date>-<8 chars>', given at
\* its first save, and no later save of the order (status change, cancellation, note
\* update) changes it.
C10_OrderNumberOnce ==
    /\ [](\A i \in DOMAIN orders : OrderNumberForm(orders[i].order_number))
    /\ [][\A i \in DOMAIN orders : orders'[i].order_number = orders[i].order_number]_vars

\* an order that was saved again after its first save: cancelled by its user, with the
\* notes replaced
C10_Witness ==
    \E i \in DOMAIN orders :
        /\ orders[i].status = "cancelled"
        /\ orders[i].notes # ""
        /\ OrderNumberForm(orders[i].order_number)

----------------------------------------------------------------------------
(* Order numbers *)

\* C11: no two stored orders have the same order_number, and a checkout, an order
\* creation or an admin's add whose generated number an order already has stores no
\* order.
C11_UniqueOrderNumbers ==
    /\ \A i, j \in DOMAIN orders :
           i # j => orders[i].order_number # orders[j].order_number
    /\ \A d \in Dates, uuid \in Uuids :
           OrderNumberTaken(generate_order_number(d, uuid), Len(orders) + 1) =>
               /\ \A u \in Users : checkout_result(u, TRUE, d, uuid).orders = orders
               /\ \A u \in Users, items_data \in ItemLists :
                      OrderCreate(u, items_data, "", d, uuid).orders = orders
               /\ \A admin \in Admins, status \in STATUS_CHOICES :
                      OrderAdmin_add_result(admin, status, d, uuid).orders = orders

\* an order is stored, and a checkout of a cart that can be ordered, which generates
\* the number of that order, is refused
C11_Witness ==
    /\ Len(orders) = 1
    /\ \E u \in Users, d \in Dates, uuid \in Uuids :
           /\ CartInStock(u)
           /\ CartAvailable(u)
           /\ generate_order_number(d, uuid) = orders[1].order_number
           /\ checkout_result(u, TRUE, d, uuid).status = 500

----------------------------------------------------------------------------
(* SpecCarts: the Cart rows.  Besides the handlers, whose get_or_create runs without *)
(* interruption, requests of one user may run get_or_create at the same time: the   *)
(* get of each finds no row before any of them inserts.                             *)

\* the get of get_or_create finds no cart of u
Cart_get_or_create_get(u) ==
    /\ [user |-> u] \notin BagToSet(carts)
    /\ BagCardinality(creating) < MaxRequests
    /\ creating' = BagAdd(creating, u)
    /\ UNCHANGED <<catalogVars, carts, cart_items, orderVars, backend,
                   userVars, txVars, reviewVars>>

\* the create of get_or_create, after its get found no cart; on IntegrityError
\* get_or_create reads the row that is there
Cart_get_or_create_create(u) ==
    /\ u \in BagToSet(creating)
    /\ carts' = Cart_create(u)
    /\ creating' = BagRemove(creating, u)
    /\ UNCHANGED <<catalogVars, cart_items, orderVars, backend, userVars, txVars, reviewVars>>

\* CartView.get_object and CartItemListView.get_queryset: get_or_create, then a read
CartView_get_object(u) ==
    /\ carts' = Cart_get_or_create(u)
    /\ UNCHANGED <<catalogVars, creating, cart_items, orderVars, backend, userVars, txVars,
                       reviewVars>>

\* the admin deletes the cart of u; its items go with it (on_delete=CASCADE)
CartAdmin_delete(u) ==
    /\ carts' = [r \in BagToSet(carts) \ {[user |-> u]} |-> CopiesIn(r, carts)]
    /\ cart_items' = CartItemsDeleted(u)
    /\ UNCHANGED <<catalogVars, creating, orderVars, backend, userVars, txVars, reviewVars>>

NextCarts ==
    \/ \E u \in Users : Cart_get_or_create_get(u)
    \/ \E u \in Users : Cart_get_or_create_create(u)
    \/ \E u \in Users : CartView_get_object(u)
    \/ \E u \in Users : CartAdmin_delete(u)
    \/ \E u \in Users, v \in {NULL, "v1"} : add_to_cart(u, "p1", v, 1)
    \/ \E u \in Users, row \in BagToSet(cart_items) : remove_from_cart(u, row)
    \/ \E u \in Users, row \in BagToSet(cart_items), q \in Quantities :
           update_cart_item_quantity(u, row, q)
    \/ \E u \in Users : clear_cart(u)
    \/ \E u \in Users, d \in Dates, uuid \in Uuids : checkout(u, TRUE, d, uuid)

SpecCarts == Init /\ [][NextCarts]_vars

\* C12: each user has at most one cart, whatever cart operations ran, one after the
\* other or with their get_or_create at the same time.
C12_OneCartPerUser ==
    /\ \A r \in BagToSet(carts) : r.user \in Users /\ CopiesIn(r, carts) = 1
    /\ \A r \in BagToSet(cart_items) : [user |-> r.cart] \in BagToSet(carts)

\* the cart of u1 is stored while another get_or_create of u1, whose get found no
\* cart, has still to insert
C12_Witness ==
    /\ [user |-> "u1"] \in BagToSet(carts)
    /\ "u1" \in BagToSet(creating)

----------------------------------------------------------------------------
(* SpecPrices: prices change while a user fills a cart and orders *)

\* the prices an edit may set, in cents
Prices == {1000, 2500}

\* an update that carries the new price into the item rows of the product
ProductUpdateView_price_synced(u, product_id, price) ==
    IF product_id \notin Products
    THEN [status |-> 404, products |-> products, order_items |-> order_items]
    ELSE [status |-> 200,
          products |-> [products EXCEPT ![product_id].price = price],
          order_items |->
              LET synced(r) == IF r.product = product_id /\ r.product_variant = NULL
                               THEN [r EXCEPT !.unit_price = price,
                                              !.total_price = r.quantity * price]
                               ELSE r
              IN  SetToBag({synced(r) : r \in BagToSet(order_items)})]

\* PATCH on the product update endpoint with a price: the Product row is saved
ProductUpdateView_price_result(u, product_id, price) ==
    IF product_id \notin DefaultManager(products)
    THEN [status |-> 404, products |-> products, order_items |-> order_items]
    ELSE [status |-> 200,
          products |-> [products EXCEPT ![product_id].price = price],
          order_items |-> order_items]

ProductUpdateView_price(u, product_id, price) ==
    LET result == ProductUpdateView_price_result(u, product_id, price)
    IN  /\ products' = result.products
        /\ order_items' = result.order_items
        /\ UNCHANGED <<variants, categories, cartVars, orders, status_history, backend,
                       userVars, txVars, reviewVars>>

\* the admin saves a variant with this price
ProductVariantAdmin_save_price(variant_id, price) ==
    /\ variants' = [variants EXCEPT ![variant_id].price = price]
    /\ UNCHANGED <<products, categories, cartVars, orderVars, backend,
                   userVars, txVars, reviewVars>>

NextPrices ==
    \/ \E v \in {NULL, "v1"} : add_to_cart("u1", "p1", v, 1)
    \/ \E row \in BagToSet(cart_items) : remove_from_cart("u1", row)
    \/ clear_cart("u1")
    \/ \E d \in Dates, uuid \in Uuids : checkout("u1", TRUE, d, uuid)
    \/ \E u \in Users, p \in ProductIds, price \in Prices : ProductUpdateView_price(u, p, price)
    \/ \E v \in Variants, price \in Prices : ProductVariantAdmin_save_price(v, price)

SpecPrices == Init /\ [][NextPrices]_vars

\* C13: once an order and its items are stored, no later change of a product's or a
\* variant's price nor of the cart changes the order's subtotal, tax_amount,
\* shipping_amount, discount_amount and total_amount, nor the unit_price and
\* total_price of any of its items.
C13_OrderIsSnapshot ==
    [][/\ \A i \in DOMAIN orders :
              /\ i \in DOMAIN orders'
              /\ orders'[i].subtotal = orders[i].subtotal
              /\ orders'[i].tax_amount = orders[i].tax_amount
              /\ orders'[i].shipping_amount = orders[i].shipping_amount
              /\ orders'[i].discount_amount = orders[i].discount_amount
              /\ orders'[i].total_amount = orders[i].total_amount
       /\ order_items \sqsubseteq order_items']_vars

\* an order item stored at the price of checkout time, which the product has no more
C13_Witness ==
    \E r \in BagToSet(order_items) :
        /\ r.product_variant = NULL
        /\ r.unit_price # products[r.product].price
        /\ orders[r.order].subtotal = r.total_price

----------------------------------------------------------------------------
(* Cancellation *)

\* C14: can_be_cancelled() is true for an order whose status is 'pending', 'confirmed'
\* or 'processing' and false for one whose status is 'shipped', 'delivered',
\* 'cancelled' or 'refunded'; an order as a checkout or an order creation stores it
\* is cancellable.
C14_CanBeCancelled ==
    /\ \A i \in DOMAIN orders :
           /\ orders[i].status \in {"pending", "confirmed", "processing"} =>
                  Order_can_be_cancelled(orders[i])
           /\ orders[i].status \in {"shipped", "delivered", "cancelled", "refunded"} =>
                  ~Order_can_be_cancelled(orders[i])
           /\ orders[i].status \in STATUS_CHOICES
    /\ \A u \in Users, items_data \in PostLists, d \in Dates, uuid \in Uuids :
           LET created == OrderCreate(u, items_data, "", d, uuid)
           IN  created.error = "ok" =>
                   Order_can_be_cancelled(created.orders[Len(created.orders)])
    /\ \A d \in Dates, uuid \in Uuids :
           LET result == checkout_result("u1", TRUE, d, uuid)
           IN  result.status = 201 =>
                   Order_can_be_cancelled(result.orders[Len(result.orders)])

\* a shipped order, which is not cancellable, and whose cancellation is refused
C14_Witness ==
    \E i \in DOMAIN orders :
        /\ orders[i].status = "shipped"
        /\ ~Order_can_be_cancelled(orders[i])
        /\ \E d \in Dates, uuid \in Uuids :
               OrderDetailView_perform_destroy_result(orders[i].user, i, d, uuid).status
                   \notin {200, 204}

----------------------------------------------------------------------------
(* Cart totals *)

\* sum(item.quantity for item in rows), sum(item.total_price for item in rows)
RECURSIVE SumQuantity(_)
SumQuantity(rows) ==
    IF rows = <<>> THEN 0 ELSE Head(rows).quantity + SumQuantity(Tail(rows))

RECURSIVE SumTotalPrice(_)
SumTotalPrice(rows) ==
    IF rows = <<>> THEN 0 ELSE Head(rows).total_price + SumTotalPrice(Tail(rows))

\* a total that counts the rows
Cart_count_items(u) == Len(BagToSeq(CartOf(u)))

\* Cart.total_items and Cart.total_amount over self.items.all()
Cart_total_items(u) == SumQuantity(BagToSeq(CartOf(u)))
Cart_total_amount(u) == SumTotalPrice(BagToSeq(CartOf(u)))

\* the units and the cents of a set of distinct cart rows
RECURSIVE UnitsOf(_)
UnitsOf(rows) ==
    IF rows = {} THEN 0
    ELSE LET r == CHOOSE x \in rows : TRUE
         IN  r.quantity * CopiesIn(r, cart_items) + UnitsOf(rows \ {r})

RECURSIVE CentsOf(_)
CentsOf(rows) ==
    IF rows = {} THEN 0
    ELSE LET r == CHOOSE x \in rows : TRUE
         IN  r.quantity * r.unit_price * CopiesIn(r, cart_items) + CentsOf(rows \ {r})

\* C15: a cart's total_items is the sum of the quantities of its items and its
\* total_amount the sum of their total_price, which is the sum of quantity times
\* unit_price; both are 0 for a cart without items.
C15_CartTotals ==
    \A u \in Users :
        /\ Cart_total_items(u) = UnitsOf(CartRows(u))
        /\ Cart_total_amount(u) = CentsOf(CartRows(u))
        /\ CartRows(u) = {} => Cart_total_items(u) = 0 /\ Cart_total_amount(u) = 0
        /\ CartRows(u) # {} => Cart_total_items(u) > 0

\* a cart of two rows, three units in all, and a cart emptied by a checkout
C15_Witness ==
    /\ \E u \in Users :
           /\ Cardinality(CartRows(u)) = 2
           /\ Cart_total_items(u) = 3
           /\ Cart_total_amount(u) = 1995 + 2 * 2500
    /\ \E i \in DOMAIN orders :
           CartRows(orders[i].user) = {} /\ Cart_total_amount(orders[i].user) = 0

----------------------------------------------------------------------------
(* update_cart_item_quantity *)

\* the quantities a request may carry; 0 also stands for none
RequestQuantities == -1..(MaxStock + 1)

\* C16: update_cart_item_quantity on a row of the requester's cart with a quantity q,
\* 1 <= q <= the product's stock_quantity, answers 200 and leaves the row with
\* quantity q and total_price q * unit_price and every other row as it was; with q
\* missing, zero, less than 1 or more than the stock it answers 400 and leaves the
\* CartItem table as it was.
C16_UpdateQuantity ==
    \A u \in Users : \A row \in CartRows(u) : \A q \in RequestQuantities :
        LET result == update_cart_item_quantity_result(u, row, q)
            updated == [row EXCEPT !.quantity = q, !.total_price = q * row.unit_price]
        IN  IF 1 <= q /\ q <= products[row.product].stock_quantity
            THEN /\ result.status = 200
                 /\ updated \in BagToSet(result.cart_items)
                 /\ BagCardinality(result.cart_items) = BagCardinality(cart_items)
                 /\ \A r \in BagToSet(cart_items) :
                        r # row => CopiesIn(r, result.cart_items) >= CopiesIn(r, cart_items)
            ELSE /\ result.status = 400
                 /\ result.cart_items = cart_items

\* a row of quantity 1 of a product with a stock of 1: the update to 1 is accepted and
\* the update to 2 is refused
C16_Witness ==
    \E u \in Users : \E row \in CartRows(u) :
        /\ row.quantity = 1
        /\ products[row.product].stock_quantity = 1
        /\ update_cart_item_quantity_result(u, row, 1).status = 200
        /\ update_cart_item_quantity_result(u, row, 2).status = 400

----------------------------------------------------------------------------
(* clear_cart and remove_from_cart *)

\* what a step of a cart request of u leaves: the cart row of u stored once, the
\* other cart rows, the rows of the other carts, the catalog with its stock, the orders
CartRequestFrame(u) ==
    /\ CopiesIn([user |-> u], carts') = 1
    /\ \A r \in BagToSet(carts) \cup BagToSet(carts') :
           r.user # u => CopiesIn(r, carts') = CopiesIn(r, carts)
    /\ \A r \in BagToSet(cart_items) \cup BagToSet(cart_items') :
           r.cart # u => CopiesIn(r, cart_items') = CopiesIn(r, cart_items)
    /\ UNCHANGED <<catalogVars, orderVars>>

\* C17: clear_cart removes every item of the requester's cart, remove_from_cart
\* exactly the named item of the requester's cart; both leave the cart row, the other
\* users' carts and items and every product's stock as they were; remove_from_cart on
\* an item that is not in the requester's cart answers 404 and removes nothing.
C17_ClearAndRemove ==
    /\ [](\A u \in Users : \A row \in BagToSet(cart_items) :
              /\ remove_from_cart_result(u, row).status = IF row.cart = u THEN 200 ELSE 404
              /\ clear_cart_result(u).status = 200)
    /\ [][\A u \in Users :
              /\ clear_cart(u) =>
                     /\ \A r \in BagToSet(cart_items') : r.cart # u
                     /\ CartRequestFrame(u)
              /\ \A row \in BagToSet(cart_items) :
                     remove_from_cart(u, row) =>
                         /\ CartRequestFrame(u)
                         /\ IF row.cart = u
                            THEN /\ CopiesIn(row, cart_items') = CopiesIn(row, cart_items) - 1
                                 /\ \A r \in BagToSet(cart_items) \cup BagToSet(cart_items') :
                                        r # row => CopiesIn(r, cart_items')
                                                       = CopiesIn(r, cart_items)
                            ELSE cart_items' = cart_items]_vars

\* both users hold items, so that a clear_cart or a remove_from_cart of one of them
\* has the items of the other to leave alone, and an item of the other to be refused
C17_Witness ==
    /\ CartRows("u1") # {}
    /\ Cardinality(CartRows("u2")) = 2
    /\ \E row \in CartRows("u2") : remove_from_cart_result("u1", row).status = 404
    /\ \E row \in CartRows("u2") : remove_from_cart_result("u2", row).status = 200

----------------------------------------------------------------------------
(* Reading orders *)

\* GET on the order list: OrderListView.get_queryset
OrderListView_get(u) == {i \in DOMAIN orders : orders[i].user = u}

\* GET on the order detail: the lookup in OrderDetailView.get_queryset
OrderDetailView_get(u, id) ==
    IF id \in OwnOrders(u)
    THEN [status |-> 200, order |-> {id}]
    ELSE [status |-> 404, order |-> {}]

\* GET on the status history of an order: get_object_or_404(Order, id, user), then
\* the entries of the order
OrderStatusHistoryView_get(u, id) ==
    IF id \in DOMAIN orders /\ orders[id].user = u
    THEN [status |-> 200,
          entries |-> {n \in DOMAIN status_history : status_history[n].order = id}]
    ELSE [status |-> 404, entries |-> {}]

\* C18: the order list returns exactly the orders of the requester; a retrieve, an
\* update, a cancellation and a status-history request on an order of another user
\* answer 404 and leave the orders and the history as they are; on an own order the
\* retrieve and the history answer 200 with that order and its entries.
C18_OwnOrdersOnly ==
    \A u \in Users :
        /\ \A i \in DOMAIN orders : i \in OrderListView_get(u) <=> orders[i].user = u
        /\ OrderListView_get(u) \subseteq DOMAIN orders
        /\ \A id \in DOMAIN orders :
               IF orders[id].user = u
               THEN /\ OrderDetailView_get(u, id) = [status |-> 200, order |-> {id}]
                    /\ OrderStatusHistoryView_get(u, id).status = 200
                    /\ \A n \in DOMAIN status_history :
                           n \in OrderStatusHistoryView_get(u, id).entries
                               <=> status_history[n].order = id
               ELSE /\ OrderDetailView_get(u, id) = [status |-> 404, order |-> {}]
                    /\ OrderStatusHistoryView_get(u, id) = [status |-> 404, entries |-> {}]
                    /\ \A data \in UpdateData, d \in Dates, uuid \in Uuids :
                           /\ OrderDetailView_perform_update_result(u, id, data, d, uuid)
                                  = Unchanged(404)
                           /\ OrderDetailView_perform_destroy_result(u, id, d, uuid)
                                  = Unchanged(404)

\* a cancellable order of u1 with a history entry, which u2 asks for
C18_Witness ==
    \E id \in DOMAIN orders :
        /\ orders[id].user = "u1"
        /\ Order_can_be_cancelled(orders[id])
        /\ OrderStatusHistoryView_get("u1", id).entries # {}
        /\ OrderDetailView_get("u2", id).status = 404
        /\ OrderListView_get("u2") = {}

----------------------------------------------------------------------------
(* Accounts: registration, profile, change of password *)

Usernames == {"testuser", "alice", "bob"}
Emails == {"test@example.com", "alice@example.com", "bob@example.com"}
\* "123" is the password that validate_password rejects
WeakPasswords == {"123"}
RegistrationPasswords == {"testpass123", "differentpass", "123"}
Passwords == RegistrationPasswords \cup {"newpass123"}

RegistrationData ==
    [username : Usernames, email : Emails,
     password : RegistrationPasswords, password_confirm : RegistrationPasswords]

ChangePasswordData ==
    [old_password : Passwords, new_password : Passwords, new_password_confirm : Passwords]

\* a validation that accepts everything
validate_nothing(attrs) == TRUE

\* a check of the old password that accepts everything
validate_any_password(user, value) == TRUE

\* django.contrib.auth.password_validation.validate_password
validate_password(password) == password \notin WeakPasswords

\* set_password stores a hash of the raw password, never the raw password
make_password(raw) == [algorithm |-> "pbkdf2_sha256", hash |-> <<"hash", raw>>]

\* User.check_password
User_check_password(user, raw) == user.password = make_password(raw)

\* the unique columns of User
UsernameTaken(username) == \E i \in DOMAIN accounts : accounts[i].username = username
EmailTaken(email) == \E i \in DOMAIN accounts : accounts[i].email = email

\* UserRegistrationSerializer.validate
UserRegistrationSerializer_validate(attrs) == attrs.password = attrs.password_confirm

\* is_valid: the field validators, then validate
UserRegistrationSerializer_is_valid(data) ==
    /\ ~UsernameTaken(data.username)
    /\ ~EmailTaken(data.email)
    /\ validate_password(data.password)
    /\ UserRegistrationSerializer_validate(data)

\* UserRegistrationSerializer.create: password_confirm is dropped, create_user hashes
UserRegistrationSerializer_create(validated_data) ==
    [username |-> validated_data.username,
     email |-> validated_data.email,
     password |-> make_password(validated_data.password)]

ProfilesOf(table, id) == CopiesIn([user |-> id], table)

\* UserProfile.objects.create(user=user)
UserProfile_create(id) == profiles (+) SetToBag({[user |-> id]})

\* UserProfile.objects.get_or_create(user=user)
UserProfile_get_or_create(id) ==
    IF ProfilesOf(profiles, id) > 0 THEN profiles ELSE UserProfile_create(id)

\* POST register/
UserRegistrationView_create_result(data) ==
    IF ~UserRegistrationSerializer_is_valid(data)
    THEN [status |-> 400, accounts |-> accounts, profiles |-> profiles, tokens |-> {}]
    ELSE LET id == Len(accounts) + 1
         IN [status |-> 201,
             accounts |-> Append(accounts, UserRegistrationSerializer_create(data)),
             profiles |-> UserProfile_create(id),
             tokens |-> {id}]

UserRegistrationView_create(data) ==
    LET r == UserRegistrationView_create_result(data)
    IN /\ Len(r.accounts) <= MaxUsers
       /\ accounts' = r.accounts
       /\ profiles' = r.profiles
       /\ UNCHANGED <<catalogVars, cartVars, orderVars, backend, txVars, reviewVars>>

\* GET profile/detail/
UserProfileDetailView_get_object(id) ==
    /\ id \in DOMAIN accounts
    /\ profiles' = UserProfile_get_or_create(id)
    /\ UNCHANGED <<catalogVars, cartVars, orderVars, backend, accounts, txVars, reviewVars>>

\* the profile deleted in the admin
UserProfileAdmin_delete(id) ==
    /\ ProfilesOf(profiles, id) > 0
    /\ profiles' = profiles (-) SetToBag({[user |-> id]})
    /\ UNCHANGED <<catalogVars, cartVars, orderVars, backend, accounts, txVars, reviewVars>>

\* ChangePasswordSerializer.validate
ChangePasswordSerializer_validate(attrs) ==
    attrs.new_password = attrs.new_password_confirm

\* ChangePasswordSerializer.validate_old_password
ChangePasswordSerializer_validate_old_password(user, value) ==
    User_check_password(user, value)

\* is_valid: the field validators, then validate
ChangePasswordSerializer_is_valid(user, data) ==
    /\ ChangePasswordSerializer_validate_old_password(user, data.old_password)
    /\ validate_password(data.new_password)
    /\ ChangePasswordSerializer_validate(data)

\* POST change-password/ by the user with this id
ChangePasswordView_post_result(id, data) ==
    IF ChangePasswordSerializer_is_valid(accounts[id], data)
    THEN [status |-> 200,
          accounts |-> [accounts EXCEPT ![id].password = make_password(data.new_password)]]
    ELSE [status |-> 400, accounts |-> accounts]

ChangePasswordView_post(id, data) ==
    /\ id \in DOMAIN accounts
    /\ accounts' = ChangePasswordView_post_result(id, data).accounts
    /\ UNCHANGED <<catalogVars, cartVars, orderVars, backend, profiles, txVars, reviewVars>>

\* POST password-reset-confirm/: PasswordResetConfirmSerializer.is_valid, then the
\* answer; no account is looked up and set_password is commented out
PasswordResetConfirmView_post_result(new_password, new_password_confirm) ==
    IF validate_password(new_password) /\ new_password = new_password_confirm
    THEN [status |-> 200, accounts |-> accounts]
    ELSE [status |-> 400, accounts |-> accounts]

PasswordResetConfirmView_post(new_password, new_password_confirm) ==
    /\ accounts' =
           PasswordResetConfirmView_post_result(new_password, new_password_confirm).accounts
    /\ UNCHANGED <<catalogVars, cartVars, orderVars, backend, profiles, txVars, reviewVars>>

NextUsers ==
    \/ \E data \in RegistrationData : UserRegistrationView_create(data)
    \/ \E id \in 1..MaxUsers : UserProfileDetailView_get_object(id)
    \/ \E id \in 1..MaxUsers : UserProfileAdmin_delete(id)
    \/ \E id \in 1..MaxUsers, data \in ChangePasswordData : ChangePasswordView_post(id, data)
    \/ \E new_password \in Passwords, new_password_confirm \in Passwords :
           PasswordResetConfirmView_post(new_password, new_password_confirm)

SpecUsers == Init /\ [][NextUsers]_vars

\* C19: a registration whose passwords differ, or whose password fails validation,
\* is rejected and creates no user and no profile; a registration with valid data
\* answers 201 with tokens and creates exactly one user, whose password is the
\* submitted one, and exactly one profile, for that user.
C19_Registration ==
    \A data \in RegistrationData :
        LET r == UserRegistrationView_create_result(data)
            id == Len(accounts) + 1
        IN IF \/ data.password # data.password_confirm
              \/ data.password \in WeakPasswords
              \/ UsernameTaken(data.username)
              \/ EmailTaken(data.email)
           THEN /\ r.status = 400
                /\ r.accounts = accounts
                /\ r.profiles = profiles
                /\ r.tokens = {}
           ELSE /\ r.status = 201
                /\ r.tokens = {id}
                /\ Len(r.accounts) = Len(accounts) + 1
                /\ SubSeq(r.accounts, 1, Len(accounts)) = accounts
                /\ r.accounts[id].username = data.username
                /\ r.accounts[id].email = data.email
                /\ User_check_password(r.accounts[id], data.password)
                /\ \A raw \in Passwords \ {data.password} :
                       ~User_check_password(r.accounts[id], raw)
                /\ ProfilesOf(r.profiles, id) = 1
                /\ BagCardinality(r.profiles) = BagCardinality(profiles) + 1

\* a registered user with the profile of the registration, while a registration
\* with two different passwords is being refused
C19_Witness ==
    /\ Len(accounts) = 1
    /\ User_check_password(accounts[1], "testpass123")
    /\ ProfilesOf(profiles, 1) = 1
    /\ \E data \in RegistrationData :
           /\ ~UsernameTaken(data.username)
           /\ ~EmailTaken(data.email)
           /\ data.password = "testpass123"
           /\ data.password_confirm = "differentpass"
           /\ UserRegistrationView_create_result(data).status = 400

\* C20: change-password stores new_password for the requester only when old_password
\* is the current password and new_password equals new_password_confirm; in every
\* other case it answers 400 and the stored password stays; the row of any other
\* user is never changed.
C20_ChangePassword ==
    \A id \in DOMAIN accounts : \A data \in ChangePasswordData :
        LET r == ChangePasswordView_post_result(id, data)
            allowed == /\ User_check_password(accounts[id], data.old_password)
                       /\ data.new_password = data.new_password_confirm
        IN /\ DOMAIN r.accounts = DOMAIN accounts
           /\ \A other \in DOMAIN accounts \ {id} : r.accounts[other] = accounts[other]
           /\ r.accounts[id].password # accounts[id].password => allowed
           /\ ~allowed => r.status = 400 /\ r.accounts = accounts
           /\ r.status \in {200, 400}
           /\ r.status = 400 => r.accounts = accounts
           /\ r.status = 200 =>
                  /\ User_check_password(r.accounts[id], data.new_password)
                  /\ r.accounts[id].username = accounts[id].username
                  /\ r.accounts[id].email = accounts[id].email
           /\ allowed /\ data.new_password \notin WeakPasswords => r.status = 200

\* two users, the first with a password that only a change of password can store,
\* the second still with the password of the registration
C20_Witness ==
    /\ Len(accounts) = 2
    /\ User_check_password(accounts[1], "newpass123")
    /\ User_check_password(accounts[2], "testpass123")

----------------------------------------------------------------------------
(* Cancelling through the API *)

\* the status of a response that carries a validation error
HTTP_400_BAD_REQUEST == 400

\* C21: DELETE on the order detail by the owner: when can_be_cancelled() holds the
\* status becomes 'cancelled', the row is kept and one entry 'cancelled' with
\* changed_by = the requester is appended; when it does not hold the request fails
\* with a validation error and status and history are unchanged.  The refusal is not
\* a validation error, which violates it.
C21_CancelOrRefuse ==
    \A id \in DOMAIN orders : \A d \in Dates, uuid \in Uuids :
        LET u == orders[id].user
            result == OrderDetailView_perform_destroy_result(u, id, d, uuid)
        IN  IF Order_can_be_cancelled(orders[id])
            THEN /\ Len(result.orders) = Len(orders)
                 /\ result.orders[id].status = "cancelled"
                 /\ result.status_history =
                        Append(status_history,
                               [order |-> id, status |-> "cancelled", changed_by |-> u])
            ELSE /\ result.status = HTTP_400_BAD_REQUEST
                 /\ result.orders = orders
                 /\ result.status_history = status_history

\* an update step of the user-facing order API
OrderUpdateStep ==
    \E u \in Users, id \in 1..MaxOrders, data \in UpdateData, d \in Dates, uuid \in Uuids :
        OrderDetailView_perform_update(u, id, data, d, uuid)

\* a step of the user-facing order API: update, cancel, checkout, POST on the list
OrderApiStep ==
    \/ OrderUpdateStep
    \/ \E u \in Users, id \in 1..MaxOrders, d \in Dates, uuid \in Uuids :
           OrderDetailView_perform_destroy(u, id, d, uuid)
    \/ \E u \in Users, b \in BOOLEAN, d \in Dates, uuid \in Uuids : checkout(u, b, d, uuid)
    \/ \E u \in Users, items_data \in PostLists, d \in Dates, uuid \in Uuids :
           OrderListView_post(u, items_data, TRUE, d, uuid)

\* C22: through the user-facing order API the only status transition is from
\* 'pending', 'confirmed' or 'processing' to 'cancelled': an update never changes a
\* status, and no request changes the status of an order that is 'cancelled',
\* 'shipped', 'delivered' or 'refunded'.
C22_OnlyCancelTransition ==
    [][\A i \in DOMAIN orders :
           (i \notin DOMAIN orders' \/ orders'[i].status # orders[i].status) =>
               \/ ~OrderApiStep
               \/ /\ i \in DOMAIN orders'
                  /\ orders[i].status \in {"pending", "confirmed", "processing"}
                  /\ orders'[i].status = "cancelled"
                  /\ ~OrderUpdateStep]_vars

\* an order cancelled by its user (the last history entry), which an update naming
\* the status 'pending' and a second cancellation leave cancelled
C22_Witness ==
    /\ status_history # <<>>
    /\ LET last == status_history[Len(status_history)]
       IN  /\ last.status = "cancelled"
           /\ last.changed_by \in Users
           /\ orders[last.order].status = "cancelled"
           /\ orders[last.order].user = last.changed_by
           /\ \A d \in Dates, uuid \in Uuids :
                  /\ OrderDetailView_perform_update_result(
                         last.changed_by, last.order, [status |-> "pending"], d, uuid
                         ).orders[last.order].status = "cancelled"
                  /\ OrderDetailView_perform_destroy_result(
                         last.changed_by, last.order, d, uuid).orders = orders

\* C23: an update of an order by its owner changes at most notes (and the two lines
\* of the shipping address): status, order_number, the amounts, the owner and the
\* items of the order, and every other order, are unchanged whatever the request
\* contains; notes named in the request are stored.
C23_UpdateFrame ==
    \A id \in DOMAIN orders : \A data \in UpdateData, d \in Dates, uuid \in Uuids :
        LET result == OrderDetailView_perform_update_result(orders[id].user, id, data, d, uuid)
        IN  /\ result.status = 200
            /\ DOMAIN result.orders = DOMAIN orders
            /\ \A i \in DOMAIN orders \ {id} : result.orders[i] = orders[i]
            /\ \A field \in DOMAIN orders[id] \ allowed_fields :
                   result.orders[id][field] = orders[id][field]
            /\ result.orders[id].status = orders[id].status
            /\ result.orders[id].total_amount = orders[id].total_amount
            /\ result.orders[id].order_number = orders[id].order_number
            /\ result.orders[id].notes =
                   IF "notes" \in DOMAIN data THEN data["notes"] ELSE orders[id].notes
            /\ result.order_items = order_items
            /\ result.status_history = status_history
            /\ result.products = products
            /\ result.cart_items = cart_items

\* a pending order with an item whose notes were replaced, and for which a request
\* naming both notes and a status exists
C23_Witness ==
    \E id \in DOMAIN orders :
        /\ orders[id].notes = "leave at the door"
        /\ orders[id].status = "pending"
        /\ \E r \in BagToSet(order_items) : r.order = id
        /\ \E data \in UpdateData : data = [notes |-> "", status |-> "shipped"]

----------------------------------------------------------------------------
(* SpecStock: order creations by different users that overlap.  Each query of *)
(* OrderCreateSerializer.create is a step of its own for the database: the    *)
(* product row is read, and later saved with the stock the instance holds.    *)

\* the body of a concurrent order: one line of p1 without a variant
StockLines ==
    {<<[product_id |-> "p1", product_variant_id |-> NULL, quantity |-> q]>> :
         q \in Quantities}

\* create up to `product = Product.objects.get(id=product_id)` of the second loop:
\* the first loop has accepted the line and the instance holds the row as stored now
OrderCreate_read(u, items_data) ==
    LET totals == CalculateTotals(items_data, 1, 0)
    IN  /\ BagCardinality(order_creates) < MaxRequests
        /\ \A t \in BagToSet(order_creates) : t.user # u
        /\ totals.error = "ok"
        /\ order_creates' =
               BagAdd(order_creates,
                      [user |-> u, items_data |-> items_data, subtotal |-> totals.subtotal,
                       product |-> products[items_data[1].product_id]])
        /\ UNCHANGED <<catalogVars, cartVars, orderVars, backend,
                       userVars, cart_adds, reviewVars>>

\* the rest of create: the order and its item are written, and product.save() writes
\* the row of the instance with its stock_quantity less the quantity
OrderCreate_write(t, date, uuid) ==
    LET order_id == Len(orders) + 1
        order == NewOrder(t.user, t.subtotal, "", date, uuid)
        product_id == t.items_data[1].product_id
        written == CreateOrderItems(t.items_data, 1, order_id,
                       [error |-> "ok", order_items |-> order_items,
                        products |-> [products EXCEPT ![product_id] = t.product]])
    IN  /\ t \in BagToSet(order_creates)
        /\ order_id <= MaxOrders
        /\ ~OrderNumberTaken(order.order_number, order_id)
        /\ written.error = "ok"
        /\ orders' = Append(orders, order)
        /\ order_items' = written.order_items
        /\ products' = written.products
        /\ order_creates' = BagRemove(order_creates, t)
        /\ UNCHANGED <<variants, categories, cartVars, status_history, backend, userVars,
                       cart_adds, reviewVars>>

\* an error inside transaction.atomic(): nothing of the creation is kept
OrderCreate_rollback(t) ==
    /\ t \in BagToSet(order_creates)
    /\ order_creates' = BagRemove(order_creates, t)
    /\ UNCHANGED <<catalogVars, cartVars, orderVars, backend, userVars, cart_adds, reviewVars>>

NextStock ==
    \/ \E u \in Users, items_data \in StockLines : OrderCreate_read(u, items_data)
    \/ \E t \in BagToSet(order_creates), d \in Dates, uuid \in Uuids :
           OrderCreate_write(t, d, uuid)
    \/ \E t \in BagToSet(order_creates) : OrderCreate_rollback(t)

SpecStock == Init /\ [][NextStock]_vars

\* the units of a product in the stored order items
OrderedUnits(product_id) ==
    SumQuantity(BagToSeq([r \in {x \in BagToSet(order_items) : x.product = product_id}
                             |-> CopiesIn(r, order_items)]))

----------------------------------------------------------------------------
(* Cart quantities and stock *)

\* C25: with the stock of a product held fixed, an accepted add_to_cart or
\* update_cart_item_quantity leaves the cart item with a quantity of at most the
\* product's stock_quantity, and a request that would take the quantity above the
\* stock is rejected (400).  An add to an item already in the cart violates it.
C25_CartWithinStock ==
    /\ \A u \in Users, p \in Products, v \in LineVariantIds, q \in Quantities :
           LET result == add_to_cart_result(u, p, v, q)
               stock == products[p].stock_quantity
           IN  (\A m \in CartMatches(u, p, v) : m.quantity <= stock) =>
                   /\ result.status = 201 =>
                          \A r \in BagToSet(result.cart_items) :
                              (r.cart = u /\ r.product = p /\ r.product_variant = v)
                                  => r.quantity <= stock
                   /\ (\E m \in CartMatches(u, p, v) : m.quantity + q > stock)
                          => result.status = 400
    /\ \A u \in Users, row \in BagToSet(cart_items), q \in RequestQuantities :
           LET result == update_cart_item_quantity_result(u, row, q)
               stock == products[row.product].stock_quantity
           IN  /\ result.status = 200 =>
                      \A r \in BagToSet(result.cart_items) :
                          (r.cart = u /\ r.product = row.product
                               /\ r.product_variant = row.product_variant)
                              => r.quantity <= stock
               /\ (row \in CartRows(u) /\ q > stock) => result.status = 400

----------------------------------------------------------------------------
(* SpecAdds: add_to_cart requests of one user that overlap.  get_or_create looks *)
(* the cart item up in one query and writes in a later one.                       *)

\* the pairs the concurrent requests name
AddVariants == {NULL, "v1"}

\* add_to_cart up to the lookup of get_or_create: the request is valid and the row
\* found, if any, is held by the request
add_to_cart_get(u, product_id, variant_id, quantity) ==
    /\ BagCardinality(cart_adds) < MaxRequests
    /\ CartItemValidate(product_id, quantity) = "ok"
    /\ variant_id # NULL => VariantAvailable(variant_id, product_id)
    /\ CartMatchCount(u, product_id, variant_id) <= 1
    /\ cart_adds' =
           BagAdd(cart_adds,
                  [user |-> u, product_id |-> product_id, variant_id |-> variant_id,
                   quantity |-> quantity,
                   found |-> CartMatches(u, product_id, variant_id)])
    /\ carts' = Cart_get_or_create(u)
    /\ UNCHANGED <<catalogVars, creating, cart_items, orderVars, backend, userVars,
                   order_creates, reviewVars>>

\* unique_together (cart, product, product_variant) refuses a second row of the pair;
\* rows whose variant is NULL are never refused
CartItemCollides(u, product_id, variant_id) ==
    variant_id # NULL /\ CartMatches(u, product_id, variant_id) # {}

\* the rest of get_or_create and of create.  No row was found: the row is inserted,
\* or, when the insert is refused, the row now stored is fetched and incremented.
\* A row was found: it is saved with the quantity it had then plus the request's.
add_to_cart_write_result(t) ==
    LET u == t.user
        matches == CartMatches(u, t.product_id, t.variant_id)
        inserted == CartItemInsert(u, t.product_id, t.variant_id, t.quantity)
    IN  IF t.found = {}
        THEN IF CartItemCollides(u, t.product_id, t.variant_id)
             THEN CartItemCreate(u, t.product_id, t.variant_id, t.quantity)
             ELSE inserted
        ELSE IF matches = {} THEN cart_items
        ELSE LET stored == CHOOSE r \in matches : TRUE
                 cart_item == CHOOSE r \in t.found : TRUE
             IN  BagAdd(BagRemove(cart_items, stored),
                        CartItem_save([cart_item EXCEPT !.quantity = @ + t.quantity]))

add_to_cart_write(t) ==
    /\ t \in BagToSet(cart_adds)
    /\ cart_items' = add_to_cart_write_result(t)
    /\ cart_adds' = BagRemove(cart_adds, t)
    /\ \A r \in BagToSet(cart_items') : r.quantity <= MaxQuantity + 1
    /\ UNCHANGED <<catalogVars, carts, creating, orderVars, backend, userVars,
                   order_creates, reviewVars>>

NextAdds ==
    \/ \E v \in AddVariants, q \in Quantities : add_to_cart_get("u1", "p1", v, q)
    \/ \E t \in BagToSet(cart_adds) : add_to_cart_write(t)

SpecAdds == Init /\ [][NextAdds]_vars

\* the rows and the units of a (product, variant) pair in the cart of a user
PairRows(table, u, product_id, variant_id) ==
    [r \in {x \in BagToSet(table) :
                x.cart = u /\ x.product = product_id /\ x.product_variant = variant_id}
        |-> CopiesIn(r, table)]

PairUnits(table, u, product_id, variant_id) ==
    SumQuantity(BagToSeq(PairRows(table, u, product_id, variant_id)))

\* C26: add_to_cart requests of one user for one (product, variant) pair that
\* overlap, in any interleaving, leave exactly one cart item for the pair, and every
\* request that completes adds its quantity to that item: no second row, no lost
\* increment.  Two requests that both look the item up before either writes
\* violate it.
C26_ConcurrentAdds ==
    [][\A t \in BagToSet(cart_adds) :
           add_to_cart_write(t) =>
               /\ BagCardinality(PairRows(cart_items', t.user, t.product_id, t.variant_id)) = 1
               /\ PairUnits(cart_items', t.user, t.product_id, t.variant_id)
                      = PairUnits(cart_items, t.user, t.product_id, t.variant_id)
                            + t.quantity]_vars

----------------------------------------------------------------------------
(* The amounts of a created order *)

\* the items of an order, as a table
ItemsOf(id) ==
    [r \in {x \in BagToSet(order_items) : x.order = id} |-> CopiesIn(r, order_items)]

\* subtotal and items of every stored order: each item has the price of its variant,
\* or of its product when it has none, and the subtotal is the sum of the items
SubtotalIsSumOfItems ==
    \A i \in DOMAIN orders :
        /\ \A r \in BagToSet(ItemsOf(i)) :
               /\ r.unit_price = IF r.product_variant # NULL
                                 THEN variants[r.product_variant].price
                                 ELSE products[r.product].price
               /\ r.total_price = r.quantity * r.unit_price
        /\ orders[i].subtotal = SumTotalPrice(BagToSeq(ItemsOf(i)))
        /\ orders[i].shipping_amount = 1000
        /\ orders[i].discount_amount = 0

----------------------------------------------------------------------------
(* What a cancellation leaves alone *)

\* C28: cancelling an order changes only that order's status and the history: the
\* stock of every product, the items of the order, its amounts and every other
\* column, the other orders and the carts are the same before and after.
C28_CancelFrame ==
    \A id \in DOMAIN orders : \A d \in Dates, uuid \in Uuids :
        LET result == OrderDetailView_perform_destroy_result(orders[id].user, id, d, uuid)
        IN  /\ result.products = products
            /\ result.order_items = order_items
            /\ result.cart_items = cart_items
            /\ DOMAIN result.orders = DOMAIN orders
            /\ \A i \in DOMAIN orders \ {id} : result.orders[i] = orders[i]
            /\ \A field \in DOMAIN orders[id] \ {"status"} :
                   result.orders[id][field] = orders[id][field]
            /\ SubSeq(result.status_history, 1, Len(status_history)) = status_history
            /\ \A n \in DOMAIN result.status_history :
                   n > Len(status_history) => result.status_history[n].order = id

\* an order of u1 that can be cancelled, with an item whose units are gone from the
\* stock, while u1 has a cart item again
C28_Witness ==
    \E id \in DOMAIN orders :
        /\ orders[id].user = "u1"
        /\ Order_can_be_cancelled(orders[id])
        /\ CartRows("u1") # {}
        /\ \E r \in BagToSet(order_items) :
               /\ r.order = id
               /\ products[r.product].stock_quantity
                      = InitProducts[r.product].stock_quantity - r.quantity

----------------------------------------------------------------------------
(* Product reviews *)

\* ProductReview.objects.filter(product=product, user=user).exists()
ReviewExists(u, product_id) ==
    \E r \in BagToSet(reviews) : r.product = product_id /\ r.user = u

\* POST on the reviews of a product, the requests one after the other; the refusal
\* is `raise serializers.ValidationError(...)` in apps/products/views.py, which
\* imports no name `serializers` either
ProductReviewListView_perform_create_result(u, product_id) ==
    IF ~ProductAvailable(product_id) THEN [status |-> 404, reviews |-> reviews]
    ELSE IF ReviewExists(u, product_id)
    THEN [status |-> RaiseUnboundSerializers, reviews |-> reviews]
    ELSE [status |-> 201,
          reviews |-> BagAdd(reviews, [product |-> product_id, user |-> u])]

\* perform_create up to the exists() query, which finds no review
ProductReviewListView_perform_create_check(u, product_id) ==
    /\ BagCardinality(review_creates) < MaxRequests
    /\ ProductReviewListView_perform_create_result(u, product_id).status = 201
    /\ review_creates' = BagAdd(review_creates, [product |-> product_id, user |-> u])
    /\ UNCHANGED <<catalogVars, cartVars, orderVars, backend, userVars, txVars, reviews>>

\* serializer.save(product=product, user=request.user): the row is inserted
ProductReviewListView_perform_create_save(t) ==
    /\ t \in BagToSet(review_creates)
    /\ reviews' = BagAdd(reviews, t)
    /\ review_creates' = BagRemove(review_creates, t)
    /\ UNCHANGED <<catalogVars, cartVars, orderVars, backend, userVars, txVars>>

\* the insert refused by the database, should ProductReview (not in the sources)
\* declare (product, user) unique: IntegrityError, no row
ProductReviewListView_perform_create_refused(t) ==
    /\ t \in BagToSet(review_creates)
    /\ ReviewExists(t.user, t.product)
    /\ review_creates' = BagRemove(review_creates, t)
    /\ UNCHANGED <<catalogVars, cartVars, orderVars, backend, userVars, txVars, reviews>>

NextReviews ==
    \/ \E u \in Users, p \in Products : ProductReviewListView_perform_create_check(u, p)
    \/ \E t \in BagToSet(review_creates) : ProductReviewListView_perform_create_save(t)
    \/ \E t \in BagToSet(review_creates) : ProductReviewListView_perform_create_refused(t)

SpecReviews == Init /\ [][NextReviews]_vars

\* no (product, user) pair has two reviews
OneReviewPerPair == \A r \in BagToSet(reviews) : CopiesIn(r, reviews) = 1

\* C29: a user has at most one review per product after any sequence or interleaving
\* of review creations; a creation by a user who already reviewed the product is
\* rejected as a validation error and creates nothing; a created review carries the
\* requester and the product of the URL.  The rejection is not a validation error,
\* which violates it.
C29_OneReviewPerUser ==
    /\ OneReviewPerPair
    /\ \A u \in Users, p \in ProductIds :
           LET result == ProductReviewListView_perform_create_result(u, p)
           IN  /\ ReviewExists(u, p) =>
                      /\ result.status = HTTP_400_BAD_REQUEST
                      /\ result.reviews = reviews
               /\ result.status = 201 =>
                      result.reviews = reviews (+) SetToBag({[product |-> p, user |-> u]})

----------------------------------------------------------------------------
(* Password reset *)

\* C30: a password-reset confirmation answered with 'Password reset successfully.'
\* has set the password of an account to the submitted new_password; one whose
\* new_password and new_password_confirm differ answers 400 and changes no
\* password.  The successful answer sets no password, which violates it.
C30_ResetSetsPassword ==
    \A new_password \in Passwords, new_password_confirm \in Passwords :
        LET result == PasswordResetConfirmView_post_result(new_password, new_password_confirm)
        IN  /\ new_password # new_password_confirm =>
                   result.status = 400 /\ result.accounts = accounts
            /\ (result.status = 200 /\ accounts # <<>>) =>
                   \E id \in DOMAIN result.accounts :
                       User_check_password(result.accounts[id], new_password)

====
